---- MODULE Spec2Model ----
(***************************************************************************)
(* A model of the e-commerce REST backend: the relational store (products, *)
(* orders, order_items, ratings), and the HTTP handlers that run           *)
(* concurrently against it, one store statement per step.  Every statement *)
(* is auto-committed: no handler opens a transaction.                      *)
(***************************************************************************)
EXTENDS Integers, Sequences, FiniteSets, TLC

VARIABLES
    products,     \* products table: product_id -> row
    orders,       \* orders table: id -> row
    order_items,  \* order_items table: sequence of rows, in insertion order
    ratings,      \* ratings table: sequence of rows
    categories,   \* categories table: id -> row
    product_category, \* product_category table: set of (product, category) rows
    nextOrderId,  \* the SERIAL of orders.id
    stock0,       \* products' quantities in the initial state (history)
    op,           \* per request: the handler that serves it
    pc,           \* per request: the position inside the handler
    input,        \* per request: the decoded request
    local,        \* per request: the handler's and the model method's locals
    ret,          \* per request: the error the model method returned
    resp          \* per request: the HTTP status written

vars == <<products, orders, order_items, ratings, categories, product_category,
          nextOrderId, stock0, op, pc, input, local, ret, resp>>

dbvars == <<products, orders, order_items, ratings, categories,
            product_category, nextOrderId>>

----------------------------------------------------------------------------
\* Bounds of the model.

\* Number of requests in flight, each served by its own worker.
NumRequests == 2
\* Longest orderItems list of a placement request.
MaxItems == 2
\* Largest initial stock of a product, and largest quantity requested.
MaxStock == 2

Requests == 1 .. NumRequests

\* The products stored initially, and the ids that requests may name:
\* 0 is below 1, 7 names no row.
ProductIds == {8, 9}
RequestProductIds == {0, 7} \cup ProductIds

\* The authenticated users, and the user the token of request r names.
UserIds == {3, 4}
contextGetUser(r) == IF r % 2 = 1 THEN 3 ELSE 4

\* Quantities a request may carry: ValidateOrder checks no item quantity.
Quantities == {-1} \cup (1 .. MaxStock)

Addresses == {"", "a1"}

\* The items a placement may carry: any quantity of product 9, and one unit
\* of product 8, of the id below 1 and of the id that names no row.
OrderItemInputs ==
    [productId : {9}, quantity : Quantities]
    \cup [productId : RequestProductIds \ {9}, quantity : {1}]

----------------------------------------------------------------------------
\* Errors.

Nil == "nil"
ErrRecordNotFound == "record not found"
ErrEditConflict == "edit conflict"
ErrOutOfStock == "out of stock"
\* pgx.ErrNoRows / sql.ErrNoRows: Scan found no row.
ErrNoRows == "no rows in result set"
\* The store's error for a row that violates the check constraint quantity_check.
ErrCheckViolation == "ERROR: new row for relation \"products\" violates check constraint \"quantity_check\" (SQLSTATE 23514)"
\* Any other failure of a statement: the 3 second deadline, a lost connection.
ErrStore == "store failure"
\* The store's error for a row that violates a foreign key.
ErrForeignKey == "violates foreign key constraint"
\* The driver's error for a statement given more arguments than placeholders.
ErrArguments == "expected 0 arguments, got 2"

\* The check constraint on products.quantity that OrderModel.Insert expects.
quantity_check(quantity) == quantity >= 0

----------------------------------------------------------------------------

\* HTTP responses: resp holds the helper that wrote the response, or the
\* status writeJSON was given.

StatusCreated == "StatusCreated"
StatusOK == "StatusOK"
badRequestResponse == "badRequestResponse"
failedValidationResponse == "failedValidationResponse"
notFoundResponse == "notFoundResponse"
editConflictResponse == "editConflictResponse"
notPermittedReview == "notPermittedReview"
serverErrorResponse == "serverErrorResponse"

\* The status code each response carries.
StatusCode(response) ==
    CASE response = StatusCreated -> 201
      [] response = StatusOK -> 200
      [] response = badRequestResponse -> 400
      [] response = failedValidationResponse -> 400
      [] response = notFoundResponse -> 404
      [] response = editConflictResponse -> 409
      [] response = notPermittedReview -> 422
      [] response = serverErrorResponse -> 500
      [] OTHER -> 0

----------------------------------------------------------------------------
\* Helpers.

RECURSIVE SeqSum(_)
SeqSum(s) == IF s = <<>> THEN 0 ELSE Head(s) + SeqSum(Tail(s))

\* All sequences over S of length lo .. hi.
SeqsOf(S, lo, hi) == UNION {[1 .. n -> S] : n \in lo .. hi}

NoProduct == [title |-> "", quantity |-> 0, price |-> 0, version |-> 0]

\* A request's locals.  i counts the items (the loop variable), product is
\* the row the request read, totalPrice and orderId are Insert's.  History:
\* stmt is the statement the request ran last, k the item it was about, seen
\* and wrote the row that statement found and left in the store.
NoLocal == [i |-> 0, k |-> 0, stmt |-> "", product |-> NoProduct,
            seen |-> NoProduct, wrote |-> NoProduct,
            totalPrice |-> 0, orderId |-> 0]

ProductRow(id) == IF id \in DOMAIN products THEN products[id] ELSE NoProduct

Finish(r, err, status) ==
    /\ pc' = [pc EXCEPT ![r] = "done"]
    /\ ret' = [ret EXCEPT ![r] = err]
    /\ resp' = [resp EXCEPT ![r] = status]

----------------------------------------------------------------------------
\* The store's statements of OrderModel.Insert.

\* SELECT ... FROM products WHERE product_id = $1
SelectProduct(id) ==
    IF id \in DOMAIN products THEN {products[id]} ELSE {}

\* Mutant: the UPDATE also matches the version before the one read.
DecrementMatchesNearVersion(id, version) ==
    id \in DOMAIN products
    /\ products[id].version \in {version, version + 1}

\* Mutant: the UPDATE is guarded by the product id alone.
DecrementMatchesAnyVersion(id, version) ==
    id \in DOMAIN products

\* The row the guarded UPDATE of OrderModel.Insert matches:
\* WHERE product_id = $2 AND version = $3
DecrementMatches(id, version) ==
    id \in DOMAIN products /\ products[id].version = version

\* Mutant: the UPDATE takes one unit whatever the quantity asked for.
DecrementStockByOne(quantity, id, version) ==
    IF ~DecrementMatches(id, version)
    THEN [err |-> ErrNoRows, products |-> products]
    ELSE IF ~quantity_check(products[id].quantity - 1)
    THEN [err |-> ErrCheckViolation, products |-> products]
    ELSE [err |-> Nil,
          products |-> [products EXCEPT ![id].quantity = @ - 1,
                                        ![id].version = @ + 1]]

\* UPDATE products SET quantity = quantity - $1, version = version + 1
\* WHERE product_id = $2 AND version = $3 RETURNING version
DecrementStock(quantity, id, version) ==
    IF ~DecrementMatches(id, version)
    THEN [err |-> ErrNoRows, products |-> products]
    ELSE IF ~quantity_check(products[id].quantity - quantity)
    THEN [err |-> ErrCheckViolation, products |-> products]
    ELSE [err |-> Nil,
          products |-> [products EXCEPT ![id].quantity = @ - quantity,
                                        ![id].version = @ + 1]]

\* OrderModel.Insert's classification of the SELECT's error.
InsertSelectError(err) ==
    IF err = ErrNoRows THEN ErrRecordNotFound ELSE err

\* Mutant: an UPDATE that matched no row is not treated as an error.
InsertUpdateErrorNoRowsIgnored(err) ==
    CASE err = ErrCheckViolation -> ErrOutOfStock
      [] err = ErrNoRows -> Nil
      [] OTHER -> err

\* OrderModel.Insert's classification of the guarded UPDATE's error.
InsertUpdateError(err) ==
    CASE err = ErrCheckViolation -> ErrOutOfStock
      [] err = ErrNoRows -> ErrRecordNotFound
      [] OTHER -> err

\* Prices and totals are float64 in the handlers and NUMERIC(10, 2) in the
\* store: the model counts them in thousandths.  Float(n) is float64(n).
Float(n) == n * 1000

\* The value a NUMERIC(10, 2) column keeps of a price: rounded to two
\* decimals, halves away from zero.
Numeric(price) ==
    IF price >= 0 THEN ((price + 5) \div 10) * 10
    ELSE 0 - (((0 - price) + 5) \div 10) * 10

\* Mutant: the total accumulates price times quantity.
AddToTotalTimes(totalPrice, price, quantity) ==
    totalPrice + price * quantity

\* totalPrice += product.Price + float64(item.Quantity)
AddToTotal(totalPrice, price, quantity) ==
    totalPrice + (price + Float(quantity))

----------------------------------------------------------------------------
\* orderProductHandler and OrderModel.Insert.

\* Mutant: the address is not checked.
ValidateOrderItemsOnly(order) ==
    /\ order.user >= 0
    /\ Len(order.items) >= 1

\* ValidateOrder: the address is given and the item list holds an item.
ValidateOrder(order) ==
    /\ order.address # ""
    /\ order.user >= 0
    /\ Len(order.items) >= 1

\* The handler's answer to the error OrderModel.Insert returned.
orderProductResponse(err) ==
    IF err # Nil THEN serverErrorResponse ELSE StatusCreated

OrderInputs(r) ==
    [user : {contextGetUser(r)}, address : Addresses, malformed : {FALSE},
     items : SeqsOf(OrderItemInputs, 0, MaxItems)]
    \cup
    [user : {contextGetUser(r)}, address : {""}, malformed : {TRUE},
     items : {<<>>}]

\* The handler up to the call of Insert: readJSON, ValidateOrder.
orderProductHandler(r) ==
    /\ pc[r] = "idle"
    /\ \E in \in OrderInputs(r) :
        /\ op' = [op EXCEPT ![r] = "order"]
        /\ input' = [input EXCEPT ![r] = in]
        /\ IF in.malformed
           THEN /\ Finish(r, Nil, badRequestResponse)
                /\ UNCHANGED local
           ELSE IF ~ValidateOrder(in)
           THEN /\ Finish(r, Nil, failedValidationResponse)
                /\ UNCHANGED local
           ELSE /\ pc' = [pc EXCEPT ![r] = "select"]
                /\ local' = [local EXCEPT ![r] = [NoLocal EXCEPT !.i = 1]]
                /\ UNCHANGED <<ret, resp>>
    /\ UNCHANGED <<dbvars, stock0>>

\* Insert, one item: the id check and the SELECT of the product.
InsertSelect(r) ==
    /\ pc[r] = "select"
    /\ LET item == input[r].items[local[r].i]
           rows == SelectProduct(item.productId)
       IN \E fails \in BOOLEAN :
           LET err == IF item.productId < 1 THEN ErrRecordNotFound
                      ELSE IF fails THEN ErrStore
                      ELSE IF rows = {} THEN InsertSelectError(ErrNoRows)
                      ELSE Nil
           IN IF err # Nil
              THEN /\ Finish(r, err, orderProductResponse(err))
                   /\ local' = [local EXCEPT ![r].stmt = "select",
                                             ![r].k = local[r].i]
              ELSE /\ pc' = [pc EXCEPT ![r] = "update"]
                   /\ local' = [local EXCEPT
                                  ![r].stmt = "select",
                                  ![r].k = local[r].i,
                                  ![r].product = CHOOSE row \in rows : TRUE]
                   /\ UNCHANGED <<ret, resp>>
    /\ UNCHANGED <<dbvars, stock0, op, input>>

\* Insert, one item: the guarded UPDATE and the running total.
InsertUpdate(r) ==
    /\ pc[r] = "update"
    /\ LET item == input[r].items[local[r].i]
           id == item.productId
           done == DecrementStock(item.quantity, id, local[r].product.version)
       IN \E fails \in BOOLEAN :
           LET err == IF fails THEN ErrStore ELSE InsertUpdateError(done.err)
           IN IF err # Nil
              THEN /\ Finish(r, err, orderProductResponse(err))
                   /\ local' = [local EXCEPT ![r].stmt = "update",
                                             ![r].k = local[r].i,
                                             ![r].seen = ProductRow(id),
                                             ![r].wrote = ProductRow(id)]
                   /\ UNCHANGED products
              ELSE /\ products' = done.products
                   /\ local' = [local EXCEPT
                        ![r].stmt = "update",
                        ![r].k = local[r].i,
                        ![r].seen = ProductRow(id),
                        ![r].wrote = done.products[id],
                        ![r].i = @ + 1,
                        ![r].totalPrice =
                            AddToTotal(@, local[r].product.price, item.quantity)]
                   /\ pc' = [pc EXCEPT ![r] =
                        IF local[r].i = Len(input[r].items)
                        THEN "insert_order" ELSE "select"]
                   /\ UNCHANGED <<ret, resp>>
    /\ UNCHANGED <<orders, order_items, ratings, categories, product_category,
                   nextOrderId, stock0, op, input>>

\* Mutant: the order header is inserted before the items are decremented.
InsertOrderFirst(r) ==
    /\ pc[r] \in {"select", "insert_order"}
    /\ orders' = (nextOrderId :> [user_id |-> input[r].user,
                                  status |-> 0,
                                  total_price |-> Numeric(local[r].totalPrice),
                                  address |-> input[r].address,
                                  version |-> 1]) @@ orders
    /\ nextOrderId' = nextOrderId + 1
    /\ local' = [local EXCEPT ![r].stmt = "insert_order",
                              ![r].orderId = nextOrderId, ![r].i = 1]
    /\ pc' = [pc EXCEPT ![r] = "insert_item"]
    /\ UNCHANGED <<ret, resp>>
    /\ UNCHANGED <<products, order_items, ratings, categories, product_category,
                   stock0, op, input>>

\* Insert: INSERT INTO orders ... RETURNING id, ordered_at, user_id
InsertOrder(r) ==
    /\ pc[r] = "insert_order"
    /\ \E fails \in BOOLEAN :
        IF fails
        THEN /\ Finish(r, ErrStore, orderProductResponse(ErrStore))
             /\ local' = [local EXCEPT ![r].stmt = "insert_order"]
             /\ UNCHANGED <<orders, nextOrderId>>
        ELSE /\ orders' = (nextOrderId :> [user_id |-> input[r].user,
                                           status |-> 0,
                                           total_price |->
                                               Numeric(local[r].totalPrice),
                                           address |-> input[r].address,
                                           version |-> 1]) @@ orders
             /\ nextOrderId' = nextOrderId + 1
             /\ local' = [local EXCEPT ![r].stmt = "insert_order",
                                       ![r].orderId = nextOrderId, ![r].i = 1]
             /\ pc' = [pc EXCEPT ![r] = "insert_item"]
             /\ UNCHANGED <<ret, resp>>
    /\ UNCHANGED <<products, order_items, ratings, categories, product_category,
                   stock0, op, input>>

\* INSERT INTO order_items (order_id, product_id, quantity): order_id
\* references orders, product_id references products.
InsertOrderItemRow(orderId, item) ==
    IF orderId \in DOMAIN orders /\ item.productId \in DOMAIN products
    THEN [err |-> Nil,
          order_items |-> Append(order_items,
                                 [order_id |-> orderId,
                                  product_id |-> item.productId,
                                  quantity |-> item.quantity])]
    ELSE [err |-> ErrForeignKey, order_items |-> order_items]

\* Insert: INSERT INTO order_items ..., one statement per item.
InsertOrderItem(r) ==
    /\ pc[r] = "insert_item"
    /\ LET item == input[r].items[local[r].i]
           done == InsertOrderItemRow(local[r].orderId, item)
       IN \E fails \in BOOLEAN :
           LET err == IF fails THEN ErrStore ELSE done.err
           IN
           IF err # Nil
           THEN /\ Finish(r, err, orderProductResponse(err))
                /\ local' = [local EXCEPT ![r].stmt = "insert_item",
                                          ![r].k = local[r].i]
                /\ UNCHANGED order_items
           ELSE /\ order_items' = done.order_items
                /\ local' = [local EXCEPT ![r].stmt = "insert_item",
                                          ![r].k = local[r].i,
                                          ![r].i = @ + 1]
                /\ IF local[r].i = Len(input[r].items)
                   THEN Finish(r, Nil, orderProductResponse(Nil))
                   ELSE UNCHANGED <<pc, ret, resp>>
    /\ UNCHANGED <<products, orders, ratings, categories, product_category,
                   nextOrderId, stock0, op, input>>

----------------------------------------------------------------------------
\* updateProductHandler, ProductModel.Get and ProductModel.Update.

\* An optional field of a request body: {} when the field is absent.
Opt(S) == {{}} \cup {{x} : x \in S}
OrElse(opt, old) == IF opt = {} THEN old ELSE CHOOSE x \in opt : TRUE

\* The categories ProductModel.Get joins to the product.
ProductCategories(id) ==
    {pc_.category_id : pc_ \in {x \in product_category :
        x.product_id = id /\ x.category_id \in DOMAIN categories}}

\* ValidateProduct, on the columns the model keeps.
ValidateProduct(product, cats) ==
    /\ product.title # ""
    /\ product.price # 0
    /\ product.price > 0
    /\ Cardinality(cats) >= 1

\* Mutant: the UPDATE is guarded by the product id alone.
UpdateProductRowAnyVersion(product, id) ==
    IF id \notin DOMAIN products
    THEN [err |-> ErrNoRows, products |-> products]
    ELSE IF ~quantity_check(product.quantity)
    THEN [err |-> ErrCheckViolation, products |-> products]
    ELSE [err |-> Nil,
          products |-> [products EXCEPT ![id] =
              [title |-> product.title, quantity |-> product.quantity,
               price |-> Numeric(product.price),
               version |-> products[id].version + 1]]]

\* Mutant: the UPDATE also matches a row newer than the version submitted.
UpdateProductRowFromVersion(product, id) ==
    IF ~(id \in DOMAIN products /\ products[id].version >= product.version)
    THEN [err |-> ErrNoRows, products |-> products]
    ELSE IF ~quantity_check(product.quantity)
    THEN [err |-> ErrCheckViolation, products |-> products]
    ELSE [err |-> Nil,
          products |-> [products EXCEPT ![id] =
              [title |-> product.title, quantity |-> product.quantity,
               price |-> Numeric(product.price),
               version |-> products[id].version + 1]]]

\* UPDATE products SET title = $1, ..., quantity = $6, price = $7,
\* version = version + 1 WHERE product_id = $8 AND version = $9 RETURNING version
UpdateProductRow(product, id) ==
    IF ~(id \in DOMAIN products /\ products[id].version = product.version)
    THEN [err |-> ErrNoRows, products |-> products]
    ELSE IF ~quantity_check(product.quantity)
    THEN [err |-> ErrCheckViolation, products |-> products]
    ELSE [err |-> Nil,
          products |-> [products EXCEPT ![id] =
              [title |-> product.title, quantity |-> product.quantity,
               price |-> Numeric(product.price),
               version |-> products[id].version + 1]]]

\* ProductModel.Update's classification of the UPDATE's error.
ProductUpdateError(err) ==
    IF err = ErrNoRows THEN ErrEditConflict ELSE err

\* updateProductHandler's answer to the error of Get.
getResponse(err) ==
    IF err = ErrRecordNotFound THEN notFoundResponse ELSE serverErrorResponse

\* updateProductHandler's answer to the error of Update.
updateResponse(err) ==
    CASE err = Nil -> StatusOK
      [] err = ErrEditConflict -> editConflictResponse
      [] OTHER -> serverErrorResponse

UpdateProductInputs ==
    [id : RequestProductIds, malformed : BOOLEAN,
     title : Opt({"", "t2"}), quantity : Opt({-1, MaxStock}),
     price : Opt({0, 4, 6000})]

\* The handler up to the call of Update: readIDParam and ProductModel.Get.
updateProductHandler(r) ==
    /\ pc[r] = "idle"
    /\ \E in \in UpdateProductInputs, fails \in BOOLEAN :
        LET rows == SelectProduct(in.id)
            err == IF in.id < 1 THEN ErrRecordNotFound
                   ELSE IF fails THEN ErrStore
                   ELSE IF rows = {} THEN ErrRecordNotFound
                   ELSE Nil
        IN /\ op' = [op EXCEPT ![r] = "updateProduct"]
           /\ input' = [input EXCEPT ![r] = in]
           /\ IF err # Nil
              THEN /\ Finish(r, err, getResponse(err))
                   /\ UNCHANGED local
              ELSE /\ pc' = [pc EXCEPT ![r] = "update_product"]
                   /\ local' = [local EXCEPT ![r] =
                        [NoLocal EXCEPT !.stmt = "select",
                                        !.product = CHOOSE row \in rows : TRUE]]
                   /\ UNCHANGED <<ret, resp>>
    /\ UNCHANGED <<dbvars, stock0>>

\* Mutant: after an edit conflict the product is read again and the update
\* tried again.
ProductUpdateRetrying(r) ==
    /\ pc[r] = "update_product"
    /\ LET in == input[r]
           old == local[r].product
           product == [title |-> OrElse(in.title, old.title),
                       quantity |-> OrElse(in.quantity, old.quantity),
                       price |-> OrElse(in.price, old.price),
                       version |-> old.version]
           done == UpdateProductRow(product, in.id)
           err == ProductUpdateError(done.err)
       IN IF in.malformed \/ ~ValidateProduct(product, ProductCategories(in.id))
          THEN /\ Finish(r, Nil, badRequestResponse)
               /\ UNCHANGED <<products, local>>
          ELSE IF err = ErrEditConflict
          THEN /\ local' = [local EXCEPT ![r].stmt = "update",
                                         ![r].product = ProductRow(in.id)]
               /\ UNCHANGED <<products, pc, ret, resp>>
          ELSE /\ Finish(r, err, updateResponse(err))
               /\ products' = IF err = Nil THEN done.products ELSE products
               /\ local' = [local EXCEPT ![r].stmt = "update",
                                         ![r].seen = ProductRow(in.id)]
    /\ UNCHANGED <<orders, order_items, ratings, categories, product_category,
                   nextOrderId, stock0, op, input>>

\* The handler from readJSON on: the fields copied, ValidateProduct, Update.
ProductUpdate(r) ==
    /\ pc[r] = "update_product"
    /\ LET in == input[r]
           old == local[r].product
           product == [title |-> OrElse(in.title, old.title),
                       quantity |-> OrElse(in.quantity, old.quantity),
                       price |-> OrElse(in.price, old.price),
                       version |-> old.version]
           done == UpdateProductRow(product, in.id)
       IN IF in.malformed
          THEN /\ Finish(r, Nil, badRequestResponse)
               /\ UNCHANGED <<products, local>>
          ELSE IF ~ValidateProduct(product, ProductCategories(in.id))
          THEN /\ Finish(r, Nil, failedValidationResponse)
               /\ UNCHANGED <<products, local>>
          ELSE \E fails \in BOOLEAN :
               LET err == IF fails THEN ErrStore
                          ELSE ProductUpdateError(done.err)
               IN /\ Finish(r, err, updateResponse(err))
                  /\ products' = IF err = Nil THEN done.products ELSE products
                  /\ local' = [local EXCEPT
                        ![r].stmt = "update",
                        ![r].seen = ProductRow(in.id),
                        ![r].wrote = IF err = Nil THEN done.products[in.id]
                                     ELSE ProductRow(in.id),
                        ![r].product = IF err = Nil
                            THEN [product EXCEPT !.version = @ + 1]
                            ELSE product]
    /\ UNCHANGED <<orders, order_items, ratings, categories, product_category,
                   nextOrderId, stock0, op, input>>

----------------------------------------------------------------------------
\* updateOrderHandler, OrderModel.Get and OrderModel.Update.

NoOrder == [user_id |-> 0, status |-> 0, total_price |-> 0, address |-> "",
            version |-> 0]

OrderRow(id) == IF id \in DOMAIN orders THEN orders[id] ELSE NoOrder

\* SELECT ... FROM orders WHERE id = $1
SelectOrder(id) ==
    IF id \in DOMAIN orders THEN {orders[id]} ELSE {}

\* ValidateUpdatedOrder.
ValidateUpdatedOrder(order) ==
    /\ order.address # ""
    /\ order.user_id >= 0
    /\ order.status >= 0
    /\ order.total_price # 0
    /\ order.total_price > 0

\* UPDATE orders SET status = $1 WHERE id = $2 AND version = $3 RETURNING version
UpdateOrderRow(order, id) ==
    IF ~(id \in DOMAIN orders /\ orders[id].version = order.version)
    THEN [err |-> ErrNoRows, orders |-> orders, version |-> order.version]
    ELSE [err |-> Nil,
          orders |-> [orders EXCEPT ![id].status = order.status],
          version |-> orders[id].version]

\* OrderModel.Update's classification of the UPDATE's error.
OrderUpdateError(err) ==
    IF err = ErrNoRows THEN ErrEditConflict ELSE err

\* The orders that requests may name: 0 is below 1, 5 names no row.
RequestOrderIds == {0, 1, 5}

UpdateOrderInputs ==
    [id : RequestOrderIds, malformed : BOOLEAN,
     status : Opt({-1, 1, 2}), address : Opt({"a2"}),
     totalPrice : Opt({0, 9000})]

\* The handler up to the call of Update: readIDParam and OrderModel.Get.
updateOrderHandler(r) ==
    /\ pc[r] = "idle"
    /\ \E in \in UpdateOrderInputs, fails \in BOOLEAN :
        LET rows == SelectOrder(in.id)
            err == IF in.id < 1 THEN ErrRecordNotFound
                   ELSE IF fails THEN ErrStore
                   ELSE IF rows = {} THEN ErrRecordNotFound
                   ELSE Nil
        IN /\ op' = [op EXCEPT ![r] = "updateOrder"]
           /\ input' = [input EXCEPT ![r] = in]
           /\ IF err # Nil
              THEN /\ Finish(r, err, getResponse(err))
                   /\ UNCHANGED local
              ELSE /\ pc' = [pc EXCEPT ![r] = "update_order"]
                   /\ local' = [local EXCEPT ![r] =
                        [stmt |-> "select", order |-> CHOOSE row \in rows : TRUE,
                         seen |-> NoOrder, wrote |-> NoOrder]]
                   /\ UNCHANGED <<ret, resp>>
    /\ UNCHANGED <<dbvars, stock0>>

\* The handler from readJSON on: the fields copied, ValidateUpdatedOrder, Update.
OrderUpdate(r) ==
    /\ pc[r] = "update_order"
    /\ LET in == input[r]
           old == local[r].order
           order == [old EXCEPT !.status = OrElse(in.status, @),
                                !.address = OrElse(in.address, @),
                                !.total_price = OrElse(in.totalPrice, @)]
           done == UpdateOrderRow(order, in.id)
       IN IF in.malformed
          THEN /\ Finish(r, Nil, badRequestResponse)
               /\ UNCHANGED <<orders, local>>
          ELSE IF ~ValidateUpdatedOrder(order)
          THEN /\ Finish(r, Nil, failedValidationResponse)
               /\ UNCHANGED <<orders, local>>
          ELSE \E fails \in BOOLEAN :
               LET err == IF fails THEN ErrStore
                          ELSE OrderUpdateError(done.err)
               IN /\ Finish(r, err, updateResponse(err))
                  /\ orders' = IF err = Nil THEN done.orders ELSE orders
                  /\ local' = [local EXCEPT
                        ![r].stmt = "update",
                        ![r].seen = OrderRow(in.id),
                        ![r].wrote = IF err = Nil THEN done.orders[in.id]
                                     ELSE OrderRow(in.id),
                        ![r].order = IF err = Nil
                            THEN [order EXCEPT !.version = done.version]
                            ELSE order]
    /\ UNCHANGED <<products, order_items, ratings, categories, product_category,
                   nextOrderId, stock0, op, input>>

----------------------------------------------------------------------------
\* createReviewHandler, OrderModel.IsUserOrderedProduct, ProductModel.InsertReview.

\* ValidateReview.
ValidateReview(review) ==
    /\ review.rating >= 0
    /\ review.user >= 0

\* Whether an order of userId holds an item of productId.
OrderedBy(userId, productId) ==
    \E k \in 1 .. Len(order_items) :
        /\ order_items[k].product_id = productId
        /\ order_items[k].order_id \in DOMAIN orders
        /\ orders[order_items[k].order_id].user_id = userId

\* The statement of IsUserOrderedProduct as written: it names user 3 and
\* product 9 and has no placeholder for the two arguments it is given.
IsUserOrderedProductQuery(userId, productId) == OrderedBy(3, 9)

\* INSERT INTO ratings: product_id references products, user_id references
\* categories(id).
InsertReviewRow(review, productId) ==
    IF productId \in DOMAIN products /\ review.user \in DOMAIN categories
    THEN [err |-> Nil,
          ratings |-> Append(ratings, [product_id |-> productId,
                                       user_id |-> review.user,
                                       rating |-> review.rating])]
    ELSE [err |-> ErrForeignKey, ratings |-> ratings]

ReviewInputs(r) ==
    [productId : RequestProductIds, user : {contextGetUser(r)},
     rating : {-1, 4}, malformed : BOOLEAN]

\* The handler up to InsertReview: readJSON, ValidateReview and the gate.
\* The driver either rejects the two arguments of the statement without
\* placeholders, or runs the statement as written.
createReviewHandler(r) ==
    /\ pc[r] = "idle"
    /\ \E in \in ReviewInputs(r), rejects \in BOOLEAN :
        /\ op' = [op EXCEPT ![r] = "review"]
        /\ input' = [input EXCEPT ![r] = in]
        /\ UNCHANGED local
        /\ IF in.malformed
           THEN Finish(r, Nil, badRequestResponse)
           ELSE IF ~ValidateReview(in)
           THEN Finish(r, Nil, failedValidationResponse)
           ELSE LET err == IF in.productId < 1 THEN ErrRecordNotFound
                           ELSE IF rejects THEN ErrArguments
                           ELSE Nil
                    ok == err = Nil
                          /\ IsUserOrderedProductQuery(in.user, in.productId)
                IN IF ~ok
                   THEN IF err # Nil
                        THEN Finish(r, err, serverErrorResponse)
                        ELSE Finish(r, Nil, notPermittedReview)
                   ELSE /\ pc' = [pc EXCEPT ![r] = "insert_review"]
                        /\ UNCHANGED <<ret, resp>>
    /\ UNCHANGED <<dbvars, stock0>>

\* The handler from InsertReview on.
InsertReview(r) ==
    /\ pc[r] = "insert_review"
    /\ \E fails \in BOOLEAN :
        LET done == InsertReviewRow(input[r], input[r].productId)
            err == IF fails THEN ErrStore ELSE done.err
        IN /\ Finish(r, err,
                     IF err # Nil THEN serverErrorResponse ELSE StatusCreated)
           /\ ratings' = IF err = Nil THEN done.ratings ELSE ratings
    /\ UNCHANGED <<products, orders, order_items, categories, product_category,
                   nextOrderId, stock0, op, input, local>>

----------------------------------------------------------------------------
\* updateCategoryHandler, CategoryModel.Get and CategoryModel.Update.

NoCategory == [title |-> "", image |-> ""]

CategoryRow(id) == IF id \in DOMAIN categories THEN categories[id] ELSE NoCategory

\* SELECT title, image FROM categories WHERE id = $1
SelectCategory(id) ==
    IF id \in DOMAIN categories THEN {categories[id]} ELSE {}

\* ValidateCategory.
ValidateCategory(category) ==
    /\ category.title # ""
    /\ Len(category.title) <= 1000

\* UPDATE categories SET title = $1, image = $2 WHERE id = $3 RETURNING id
UpdateCategoryRow(category, id) ==
    IF id \notin DOMAIN categories
    THEN [err |-> ErrNoRows, categories |-> categories]
    ELSE [err |-> Nil, categories |-> [categories EXCEPT ![id] = category]]

\* CategoryModel.Update's classification of the UPDATE's error.
CategoryUpdateError(err) ==
    IF err = ErrNoRows THEN ErrEditConflict ELSE err

\* The categories that requests may name: 0 is below 1, 6 names no row.
RequestCategoryIds == {0, 1, 6}

UpdateCategoryInputs ==
    [id : RequestCategoryIds, malformed : BOOLEAN,
     title : Opt({"", "c2", "c3"}), image : Opt({"i2"})]

\* The handler up to the call of Update: readIDParam and CategoryModel.Get.
updateCategoryHandler(r) ==
    /\ pc[r] = "idle"
    /\ \E in \in UpdateCategoryInputs, fails \in BOOLEAN :
        LET rows == SelectCategory(in.id)
            err == IF in.id < 1 THEN ErrRecordNotFound
                   ELSE IF fails THEN ErrStore
                   ELSE IF rows = {} THEN ErrRecordNotFound
                   ELSE Nil
        IN /\ op' = [op EXCEPT ![r] = "updateCategory"]
           /\ input' = [input EXCEPT ![r] = in]
           /\ IF err # Nil
              THEN /\ Finish(r, err, getResponse(err))
                   /\ UNCHANGED local
              ELSE /\ pc' = [pc EXCEPT ![r] = "update_category"]
                   /\ local' = [local EXCEPT ![r] =
                        [stmt |-> "select",
                         category |-> CHOOSE row \in rows : TRUE,
                         seen |-> NoCategory, wrote |-> NoCategory]]
                   /\ UNCHANGED <<ret, resp>>
    /\ UNCHANGED <<dbvars, stock0>>

\* The handler from readJSON on: the fields copied, ValidateCategory, Update.
CategoryUpdate(r) ==
    /\ pc[r] = "update_category"
    /\ LET in == input[r]
           old == local[r].category
           category == [title |-> OrElse(in.title, old.title),
                        image |-> OrElse(in.image, old.image)]
           done == UpdateCategoryRow(category, in.id)
       IN IF in.malformed
          THEN /\ Finish(r, Nil, badRequestResponse)
               /\ UNCHANGED <<categories, local>>
          ELSE IF ~ValidateCategory(category)
          THEN /\ Finish(r, Nil, failedValidationResponse)
               /\ UNCHANGED <<categories, local>>
          ELSE \E fails \in BOOLEAN :
               LET err == IF fails THEN ErrStore
                          ELSE CategoryUpdateError(done.err)
               IN /\ Finish(r, err, updateResponse(err))
                  /\ categories' = IF err = Nil THEN done.categories
                                   ELSE categories
                  /\ local' = [local EXCEPT
                        ![r].stmt = "update",
                        ![r].seen = CategoryRow(in.id),
                        ![r].wrote = IF err = Nil THEN done.categories[in.id]
                                     ELSE CategoryRow(in.id)]
    /\ UNCHANGED <<products, orders, order_items, ratings, product_category,
                   nextOrderId, stock0, op, input>>

----------------------------------------------------------------------------
\* createProductHandler and ProductModel.Insert.

\* The elements of a list.
Range(s) == {s[n] : n \in 1 .. Len(s)}

\* The SERIAL of products.product_id: one value per row inserted.
nextProductId ==
    10 + Cardinality({r \in Requests :
            op[r] = "createProduct" /\ local[r].productId # 0})

\* CategoryModel.Get, as createProductHandler calls it for each category.
GetCategoryError(id) ==
    IF id < 1 \/ SelectCategory(id) = {} THEN ErrRecordNotFound ELSE Nil

\* The category ids of a creation request: 6 names no row.
CreateProductCategories == {<<>>, <<1, 2>>, <<6>>}

CreateProductInputs(r) ==
    [owner : {contextGetUser(r)}, malformed : {FALSE}, title : {"t3"},
     quantity : {-1, 1}, price : {0, 4, 6000},
     categories : CreateProductCategories]
    \cup
    [owner : {contextGetUser(r)}, malformed : {TRUE}, title : {""},
     quantity : {0}, price : {0}, categories : {<<>>}]

\* The handler up to the call of Insert: readJSON, the categories fetched,
\* ValidateProduct.  A category that is not found is answered with 404 (a
\* store failure with 500) and the handler goes on to dereference the nil
\* category: the panic (local's panic) ends the request.
createProductHandler(r) ==
    /\ pc[r] = "idle"
    /\ \E in \in CreateProductInputs(r), fails \in BOOLEAN :
        LET missing == {n \in 1 .. Len(in.categories) :
                            GetCategoryError(in.categories[n]) # Nil}
            product == [title |-> in.title, quantity |-> in.quantity,
                        price |-> in.price, version |-> 0]
        IN /\ op' = [op EXCEPT ![r] = "createProduct"]
           /\ input' = [input EXCEPT ![r] = in]
           /\ local' = [local EXCEPT ![r] =
                [stmt |-> "", i |-> 0, productId |-> 0, product |-> product,
                 panic |-> ~in.malformed /\ in.categories # <<>>
                           /\ (fails \/ missing # {})]]
           /\ IF in.malformed
              THEN Finish(r, Nil, badRequestResponse)
              ELSE IF in.categories # <<>> /\ fails
              THEN Finish(r, ErrStore, serverErrorResponse)
              ELSE IF missing # {}
              THEN Finish(r, ErrRecordNotFound, notFoundResponse)
              ELSE IF ~ValidateProduct(product, Range(in.categories))
              THEN Finish(r, Nil, failedValidationResponse)
              ELSE /\ pc' = [pc EXCEPT ![r] = "insert_product"]
                   /\ UNCHANGED <<ret, resp>>
    /\ UNCHANGED <<dbvars, stock0>>

\* INSERT INTO products (title, ..., quantity, price) VALUES (...)
\* RETURNING product_id, created_at, version
InsertProductRow(product, id) ==
    IF ~quantity_check(product.quantity)
    THEN [err |-> ErrCheckViolation, products |-> products]
    ELSE [err |-> Nil,
          products |-> (id :> [title |-> product.title,
                               quantity |-> product.quantity,
                               price |-> Numeric(product.price),
                               version |-> 1]) @@ products]

\* Insert: the INSERT of the product row.
ProductInsert(r) ==
    /\ pc[r] = "insert_product"
    /\ \E fails \in BOOLEAN :
        LET done == InsertProductRow(local[r].product, nextProductId)
            err == IF fails THEN ErrStore ELSE done.err
        IN IF err # Nil
           THEN /\ Finish(r, err, serverErrorResponse)
                /\ local' = [local EXCEPT ![r].stmt = "insert_product"]
                /\ UNCHANGED products
           ELSE /\ products' = done.products
                /\ local' = [local EXCEPT ![r].stmt = "insert_product",
                                          ![r].productId = nextProductId,
                                          ![r].product.version = 1,
                                          ![r].i = 1]
                /\ pc' = [pc EXCEPT ![r] = "insert_category"]
                /\ UNCHANGED <<ret, resp>>
    /\ UNCHANGED <<orders, order_items, ratings, categories, product_category,
                   nextOrderId, stock0, op, input>>

\* Insert: INSERT INTO product_category ..., one statement per category.
ProductInsertCategory(r) ==
    /\ pc[r] = "insert_category"
    /\ \E fails \in BOOLEAN :
        IF fails
        THEN /\ Finish(r, ErrStore, serverErrorResponse)
             /\ local' = [local EXCEPT ![r].stmt = "insert_category"]
             /\ UNCHANGED product_category
        ELSE /\ product_category' = product_category \cup
                    {[product_id |-> local[r].productId,
                      category_id |-> input[r].categories[local[r].i]]}
             /\ local' = [local EXCEPT ![r].stmt = "insert_category",
                                       ![r].i = @ + 1]
             /\ IF local[r].i = Len(input[r].categories)
                THEN Finish(r, Nil, StatusCreated)
                ELSE UNCHANGED <<pc, ret, resp>>
    /\ UNCHANGED <<products, orders, order_items, ratings, categories,
                   nextOrderId, stock0, op, input>>

----------------------------------------------------------------------------
\* deleteProductHandler, ProductModel.Delete, deleteOrderHandler and
\* OrderModel.Delete.

\* Mutant: the order_items rows of deleted products and orders stay.
OrderItemsKept(prods, ords) == order_items

\* order_items REFERENCES orders(id) ON DELETE CASCADE and
\* REFERENCES products(product_id) ON DELETE CASCADE: the rows that are left
\* when only the products prods and the orders ords are.
OrderItemsCascade(prods, ords) ==
    SelectSeq(order_items,
              LAMBDA row : row.product_id \in prods /\ row.order_id \in ords)

\* ratings.product_id REFERENCES products(product_id) ON DELETE CASCADE
RatingsCascade(prods) ==
    SelectSeq(ratings, LAMBDA row : row.product_id \in prods)

\* DELETE FROM products WHERE product_id = $1 RETURNING product_id.
\* The product_category table is defined outside this repository's
\* migrations: its rows either go with the product (cascades) or make the
\* store refuse the DELETE.
DeleteProductRow(id, cascades) ==
    LET left == DOMAIN products \ {id}
        joined == {x \in product_category : x.product_id = id}
        same == [products |-> products, order_items |-> order_items,
                 ratings |-> ratings, product_category |-> product_category]
    IN IF id \notin DOMAIN products
       THEN [err |-> ErrNoRows] @@ same
       ELSE IF joined # {} /\ ~cascades
       THEN [err |-> ErrForeignKey] @@ same
       ELSE [err |-> Nil,
             products |-> [p \in left |-> products[p]],
             order_items |-> OrderItemsCascade(left, DOMAIN orders),
             ratings |-> RatingsCascade(left),
             product_category |-> product_category \ joined]

\* DELETE FROM orders WHERE id = $1 RETURNING user_id
DeleteOrderRow(id) ==
    LET left == DOMAIN orders \ {id}
    IN IF id \notin DOMAIN orders
       THEN [err |-> ErrNoRows, orders |-> orders, order_items |-> order_items]
       ELSE [err |-> Nil,
             orders |-> [o \in left |-> orders[o]],
             order_items |-> OrderItemsCascade(DOMAIN products, left)]

\* Delete's classification of the DELETE's error.
DeleteError(err) ==
    IF err = ErrNoRows THEN ErrRecordNotFound ELSE err

\* The handlers' answer to the error of Delete.
deleteResponse(err) ==
    CASE err = Nil -> StatusOK
      [] err = ErrRecordNotFound -> notFoundResponse
      [] OTHER -> serverErrorResponse

\* deleteProductHandler: readIDParam, ProductModel.Delete.  Delete returns
\* pgx.ErrNoRows itself for an id below 1.
deleteProductHandler(r) ==
    /\ pc[r] = "idle"
    /\ \E id \in RequestProductIds, fails, cascades \in BOOLEAN :
        LET done == DeleteProductRow(id, cascades)
            err == IF id < 1 THEN ErrNoRows
                   ELSE IF fails THEN ErrStore
                   ELSE DeleteError(done.err)
        IN /\ op' = [op EXCEPT ![r] = "deleteProduct"]
           /\ input' = [input EXCEPT ![r] = [id |-> id]]
           /\ local' = [local EXCEPT ![r] =
                [stmt |-> "delete", existed |-> id \in DOMAIN products,
                 removed |-> err = Nil]]
           /\ Finish(r, err, deleteResponse(err))
           /\ IF err = Nil
              THEN /\ products' = done.products
                   /\ order_items' = done.order_items
                   /\ ratings' = done.ratings
                   /\ product_category' = done.product_category
              ELSE UNCHANGED <<products, order_items, ratings,
                               product_category>>
    /\ UNCHANGED <<orders, categories, nextOrderId, stock0>>

\* The orders that deletions may name: 2 is the first order placed.
DeleteOrderIds == RequestOrderIds \cup {2}

\* deleteOrderHandler: readIDParam, OrderModel.Delete.
deleteOrderHandler(r) ==
    /\ pc[r] = "idle"
    /\ \E id \in DeleteOrderIds, fails \in BOOLEAN :
        LET done == DeleteOrderRow(id)
            err == IF id < 1 THEN ErrNoRows
                   ELSE IF fails THEN ErrStore
                   ELSE DeleteError(done.err)
        IN /\ op' = [op EXCEPT ![r] = "deleteOrder"]
           /\ input' = [input EXCEPT ![r] = [id |-> id]]
           /\ local' = [local EXCEPT ![r] =
                [stmt |-> "delete", existed |-> id \in DOMAIN orders,
                 removed |-> err = Nil]]
           /\ Finish(r, err, deleteResponse(err))
           /\ IF err = Nil
              THEN /\ orders' = done.orders
                   /\ order_items' = done.order_items
              ELSE UNCHANGED <<orders, order_items>>
    /\ UNCHANGED <<products, ratings, categories, product_category,
                   nextOrderId, stock0>>

----------------------------------------------------------------------------
\* listProductsHandler, ProductModel.GetAll, listUserOrdersHandler and
\* OrderModel.GetAllOrdersForUser.

\* The sort keys each handler allows.
ProductSortSafelist ==
    {"product_id", "title", "price", "quantity", "total_rating",
     "-product_id", "-title", "-price", "-quantity", "-total_rating"}
OrderSortSafelist == {"product_id"}

\* ValidateFilters: the sort key is one of the handler's allow-list.
ValidateFilters(filters) == filters.sort \in filters.sortSafelist

\* The category ids GetAll's clause "AND pc.category_id IN (...)" lists:
\* the one category given, or, given more than one, the numbers i + 2 for
\* the positions i = 0, 1, ... of the list.
CategoriesClause(cats) ==
    IF Len(cats) > 1 THEN {i + 2 : i \in 0 .. Len(cats) - 1}
    ELSE IF Len(cats) = 1 THEN {cats[1]}
    ELSE {}

\* to_tsvector('simple', title) @@ plainto_tsquery('simple', $1) OR $1 = '',
\* for titles of one word.
TitleMatches(title, query) == query = "" \/ title = query

\* The products GetAll's statement selects: products joined to
\* product_category, with the title condition and the categories clause.
GetAllRows(title, cats) ==
    {id \in DOMAIN products :
        /\ TitleMatches(products[id].title, title)
        /\ \E x \in product_category :
              /\ x.product_id = id
              /\ Len(cats) >= 1 => x.category_id \in CategoriesClause(cats)}

\* The category lists a listing request may carry.
ListCategories == {<<>>, <<1>>, <<2>>, <<1, 4>>, <<4, 1>>, <<2, 3>>}

\* The limit and the offset of a page: the page size, and the rows of the
\* pages before it.
limit(filters) == filters.pageSize
offset(filters) == (filters.page - 1) * filters.pageSize

\* The pages LIMIT lim OFFSET off can leave of the rows all, one for each
\* order the ORDER BY can put them in.
PageRows(all, lim, off) ==
    LET rest == IF Cardinality(all) > off THEN Cardinality(all) - off ELSE 0
        n == IF rest > lim THEN lim ELSE rest
    IN {page \in SUBSET all : Cardinality(page) = n}

\* totalRecords: count(*) OVER () as scanned from the rows of the page, 0
\* when the page holds no row.
WindowCount(page, all) ==
    IF page = {} THEN 0 ELSE Cardinality(all)

\* The pages a listing request may ask for.
ListPages == {1, 2}
ListPageSizes == {1, 20}

ListProductsInputs ==
    [title : {"", "t", "x"}, categories : ListCategories,
     page : ListPages, pageSize : ListPageSizes,
     sort : {"product_id", "-price", "name"},
     sortSafelist : {ProductSortSafelist}]

NoList == [stmt |-> "", rows |-> {}, totalRecords |-> 0, todo |-> {},
           items |-> <<>>]

\* Mutant: the handler goes on to GetAll whatever ValidateFilters found.
listProductsHandlerUnvalidated(r) ==
    /\ pc[r] = "idle"
    /\ \E in \in ListProductsInputs :
        /\ op' = [op EXCEPT ![r] = "listProducts"]
        /\ input' = [input EXCEPT ![r] = in]
        /\ local' = [local EXCEPT ![r] = NoList]
        /\ pc' = [pc EXCEPT ![r] = "get_all"]
        /\ UNCHANGED <<ret, resp>>
    /\ UNCHANGED <<dbvars, stock0>>

\* The handler up to the call of GetAll: the query string read,
\* ValidateFilters.
listProductsHandler(r) ==
    /\ pc[r] = "idle"
    /\ \E in \in ListProductsInputs :
        /\ op' = [op EXCEPT ![r] = "listProducts"]
        /\ input' = [input EXCEPT ![r] = in]
        /\ local' = [local EXCEPT ![r] = NoList]
        /\ IF ~ValidateFilters(in)
           THEN Finish(r, Nil, failedValidationResponse)
           ELSE /\ pc' = [pc EXCEPT ![r] = "get_all"]
                /\ UNCHANGED <<ret, resp>>
    /\ UNCHANGED <<dbvars, stock0>>

\* GetAll: the statement that selects the page of products.
ProductGetAll(r) ==
    /\ pc[r] = "get_all"
    /\ \E fails \in BOOLEAN :
        IF fails
        THEN /\ Finish(r, ErrStore, serverErrorResponse)
             /\ local' = [local EXCEPT ![r].stmt = "query"]
        ELSE LET all == GetAllRows(input[r].title, input[r].categories)
             IN \E page \in PageRows(all, limit(input[r]), offset(input[r])) :
                 /\ Finish(r, Nil, StatusOK)
                 /\ local' = [local EXCEPT
                        ![r].stmt = "query",
                        ![r].rows = page,
                        ![r].totalRecords = WindowCount(page, all)]
    /\ UNCHANGED <<dbvars, stock0, op, input>>

ListOrdersInputs(r) ==
    [user : {contextGetUser(r)}, page : ListPages, pageSize : ListPageSizes,
     sort : {"product_id", "-product_id", "id"},
     sortSafelist : {OrderSortSafelist}]

\* The handler up to the call of GetAllOrdersForUser.
listUserOrdersHandler(r) ==
    /\ pc[r] = "idle"
    /\ \E in \in ListOrdersInputs(r) :
        /\ op' = [op EXCEPT ![r] = "listOrders"]
        /\ input' = [input EXCEPT ![r] = in]
        /\ local' = [local EXCEPT ![r] = NoList]
        /\ IF ~ValidateFilters(in)
           THEN Finish(r, Nil, failedValidationResponse)
           ELSE /\ pc' = [pc EXCEPT ![r] = "get_orders"]
                /\ UNCHANGED <<ret, resp>>
    /\ UNCHANGED <<dbvars, stock0>>

\* Mutant: the statement selects the orders of every user.
GetAllOrdersRowsAnyUser(userId) == DOMAIN orders

\* SELECT ... FROM orders WHERE user_id = $1 ORDER BY ... LIMIT $2 OFFSET $3
GetAllOrdersRows(userId) ==
    {id \in DOMAIN orders : orders[id].user_id = userId}

\* SELECT product_id, quantity FROM order_items WHERE order_id = $1
OrderItemsOf(id) ==
    LET rows == SelectSeq(order_items, LAMBDA row : row.order_id = id)
    IN [n \in 1 .. Len(rows) |->
            [productId |-> rows[n].product_id, quantity |-> rows[n].quantity]]

\* GetAllOrdersForUser: the statement that selects the page of orders; it
\* orders by the sort key, and the store fails it or answers it.
OrderGetAll(r) ==
    /\ pc[r] = "get_orders"
    /\ \E fails \in BOOLEAN :
        LET err == IF input[r].user < 1 THEN ErrRecordNotFound
                   ELSE IF fails THEN ErrStore ELSE Nil
            all == GetAllOrdersRows(input[r].user)
        IN IF err # Nil
           THEN /\ Finish(r, err, serverErrorResponse)
                /\ local' = [local EXCEPT ![r].stmt =
                        IF input[r].user < 1 THEN "" ELSE "query"]
           ELSE \E page \in PageRows(all, limit(input[r]), offset(input[r])) :
                /\ local' = [local EXCEPT
                        ![r].stmt = "query",
                        ![r].rows = page,
                        ![r].todo = page,
                        ![r].totalRecords = WindowCount(page, all)]
                /\ IF page = {}
                   THEN Finish(r, Nil, StatusOK)
                   ELSE /\ pc' = [pc EXCEPT ![r] = "get_items"]
                        /\ UNCHANGED <<ret, resp>>
    /\ UNCHANGED <<dbvars, stock0, op, input>>

\* GetAllOrdersForUser: the statement that selects the items of one of the
\* orders of the page.
OrderGetItems(r) ==
    /\ pc[r] = "get_items"
    /\ \E id \in local[r].todo, fails \in BOOLEAN :
        IF fails
        THEN /\ Finish(r, ErrStore, serverErrorResponse)
             /\ local' = [local EXCEPT ![r].stmt = "items"]
        ELSE /\ local' = [local EXCEPT
                    ![r].stmt = "items",
                    ![r].todo = @ \ {id},
                    ![r].items = (id :> OrderItemsOf(id)) @@ @]
             /\ IF local[r].todo = {id}
                THEN Finish(r, Nil, StatusOK)
                ELSE UNCHANGED <<pc, ret, resp>>
    /\ UNCHANGED <<dbvars, stock0, op, input>>

----------------------------------------------------------------------------
\* deleteCategoryHandler and CategoryModel.Delete.

\* ratings.user_id REFERENCES categories(id) ON DELETE CASCADE
RatingsCascadeCategory(cats) ==
    SelectSeq(ratings, LAMBDA row : row.user_id \in cats)

\* DELETE FROM categories WHERE id = $1, scanned for a row: the statement
\* returns no row, so the Scan finds none whether a category was deleted or
\* not.  The product_category rows of the category either go with it
\* (cascades) or make the store refuse the DELETE.
DeleteCategoryRow(id, cascades) ==
    LET left == DOMAIN categories \ {id}
        joined == {x \in product_category : x.category_id = id}
    IN IF id \in DOMAIN categories /\ joined # {} /\ ~cascades
       THEN [err |-> ErrForeignKey, categories |-> categories,
             ratings |-> ratings, product_category |-> product_category]
       ELSE [err |-> ErrNoRows,
             categories |-> [c \in left |-> categories[c]],
             ratings |-> RatingsCascadeCategory(left),
             product_category |-> product_category \ joined]

\* deleteCategoryHandler: readIDParam, CategoryModel.Delete.
deleteCategoryHandler(r) ==
    /\ pc[r] = "idle"
    /\ \E id \in RequestCategoryIds, fails, cascades \in BOOLEAN :
        LET done == DeleteCategoryRow(id, cascades)
            ran == id >= 1 /\ ~fails /\ done.err # ErrForeignKey
            err == IF id < 1 THEN ErrNoRows
                   ELSE IF fails THEN ErrStore
                   ELSE DeleteError(done.err)
        IN /\ op' = [op EXCEPT ![r] = "deleteCategory"]
           /\ input' = [input EXCEPT ![r] = [id |-> id]]
           /\ local' = [local EXCEPT ![r] =
                [stmt |-> "delete", existed |-> id \in DOMAIN categories,
                 removed |-> ran /\ id \in DOMAIN categories]]
           /\ Finish(r, err, deleteResponse(err))
           /\ IF ran
              THEN /\ categories' = done.categories
                   /\ ratings' = done.ratings
                   /\ product_category' = done.product_category
              ELSE UNCHANGED <<categories, ratings, product_category>>
    /\ UNCHANGED <<products, orders, order_items, nextOrderId, stock0>>

----------------------------------------------------------------------------
\* Specifications.

NoInput == [user |-> 0, address |-> "", malformed |-> FALSE, items |-> <<>>]

Init ==
    /\ \E q \in 0 .. MaxStock :
        products = (8 :> [title |-> "t", quantity |-> 1, price |-> 5000,
                          version |-> 1])
                   @@ (9 :> [title |-> "t", quantity |-> q, price |-> 7000,
                             version |-> 1])
    /\ orders = (1 :> [user_id |-> 3, status |-> 0, total_price |-> 6000,
                       address |-> "a1", version |-> 1])
    /\ order_items = <<[order_id |-> 1, product_id |-> 8, quantity |-> 1]>>
    /\ ratings = <<>>
    /\ categories = [id \in 1 .. 4 |-> [title |-> "c", image |-> "i"]]
    /\ product_category = {[product_id |-> 8, category_id |-> 1],
                           [product_id |-> 9, category_id |-> 1],
                           [product_id |-> 9, category_id |-> 2]}
    /\ nextOrderId = 2
    /\ stock0 = [id \in ProductIds |-> products[id].quantity]
    /\ op = [r \in Requests |-> "none"]
    /\ pc = [r \in Requests |-> "idle"]
    /\ input = [r \in Requests |-> NoInput]
    /\ local = [r \in Requests |-> NoLocal]
    /\ ret = [r \in Requests |-> Nil]
    /\ resp = [r \in Requests |-> ""]

OrderNext ==
    \E r \in Requests :
        \/ orderProductHandler(r)
        \/ InsertSelect(r)
        \/ InsertUpdate(r)
        \/ InsertOrder(r)
        \/ InsertOrderItem(r)

SpecOrders == Init /\ [][OrderNext]_vars

\* Placements and product updates.
ProductNext ==
    \/ OrderNext
    \/ \E r \in Requests :
        \/ updateProductHandler(r)
        \/ ProductUpdate(r)

SpecProducts == Init /\ [][ProductNext]_vars

\* Placements, order updates and reviews.
ReviewNext ==
    \/ OrderNext
    \/ \E r \in Requests :
        \/ updateOrderHandler(r)
        \/ OrderUpdate(r)
        \/ createReviewHandler(r)
        \/ InsertReview(r)

SpecReviews == Init /\ [][ReviewNext]_vars

----------------------------------------------------------------------------
\* Properties of order placement.

\* Insert was called for request r and has returned.
InsertReturned(r) ==
    op[r] = "order" /\ pc[r] = "done" /\ local[r].i >= 1

InsertSucceeded(r) == InsertReturned(r) /\ ret[r] = Nil

\* The item the last statement of placement r was about.
LastItem(r) == input[r].items[local[r].k]

\* The quantity of product id that placement r asks for.
Requested(r, id) ==
    SeqSum([n \in 1 .. Len(input[r].items) |->
        IF input[r].items[n].productId = id
        THEN input[r].items[n].quantity ELSE 0])

\* The quantity of product id that the placements in S ask for.
RECURSIVE RequestedBy(_, _)
RequestedBy(S, id) ==
    IF S = {} THEN 0
    ELSE LET r == CHOOSE x \in S : TRUE
         IN Requested(r, id) + RequestedBy(S \ {r}, id)

\* C1: whatever the interleaving of the placements, the quantities of a
\* product that the successful placements asked for add up to at most the
\* product's initial quantity, and the stored quantity is never below 0.
C1_StockNeverOversold ==
    \A id \in ProductIds :
        /\ products[id].quantity >= 0
        /\ RequestedBy({r \in Requests : InsertSucceeded(r)}, id)
             <= stock0[id]

\* Placements a and b each ask for product id alone, each for no more than
\* the stock, together for more than the stock; no other request names the
\* product, and the store failed in neither.
Contend(a, b, id) ==
    /\ a # b
    /\ InsertReturned(a) /\ InsertReturned(b)
    /\ Len(input[a].items) = 1 /\ input[a].items[1].productId = id
    /\ Len(input[b].items) = 1 /\ input[b].items[1].productId = id
    /\ Requested(a, id) <= stock0[id] /\ Requested(b, id) <= stock0[id]
    /\ Requested(a, id) + Requested(b, id) > stock0[id]
    /\ ret[a] # ErrStore /\ ret[b] # ErrStore
    /\ \A c \in Requests \ {a, b} :
          op[c] = "order" => Requested(c, id) = 0
                             /\ \A n \in 1 .. Len(input[c].items) :
                                   input[c].items[n].productId # id

\* C2: of two concurrent placements whose demands each fit the stock and
\* together exceed it, exactly one returns success and the other an error.
C2_ExactlyOneWins ==
    \A a, b \in Requests : \A id \in ProductIds :
        Contend(a, b, id) =>
            (ret[a] = Nil /\ ret[b] # Nil) \/ (ret[a] # Nil /\ ret[b] = Nil)

\* Two contending placements read the product at the same version; the one
\* that wrote second has lost.
C2_Witness ==
    \E a, b \in Requests :
        /\ Contend(a, b, 9)
        /\ ret[a] = Nil
        /\ local[b].stmt = "update"
        /\ local[b].seen.version # local[b].product.version

\* C3: a placement that returns an error leaves nothing behind: run alone,
\* and refused by Insert itself rather than by a failing store, it leaves
\* every product's quantity and version, the orders and the order_items as
\* they were before it started.
C3_AllOrNothing ==
    \A r \in Requests :
        (/\ InsertReturned(r)
         /\ ret[r] \notin {Nil, ErrStore}
         /\ \A o \in Requests \ {r} : pc[o] = "idle")
        => /\ \A id \in ProductIds :
                /\ products[id].quantity = stock0[id]
                /\ products[id].version = 1
           /\ DOMAIN orders = {1}
           /\ Len(order_items) = 1

\* The guarded UPDATE of placement r matched no row because the product's
\* version had changed since r read it.
LostVersionRace(r) ==
    /\ InsertReturned(r)
    /\ local[r].stmt = "update"
    /\ ret[r] # ErrStore
    /\ LastItem(r).productId \in DOMAIN products
    /\ local[r].seen.version # local[r].product.version

\* C4: a placement whose guarded decrement matched no row because the
\* version had changed fails with EditConflict.
C4_RaceIsEditConflict ==
    \A r \in Requests : LostVersionRace(r) => ret[r] = ErrEditConflict

\* C5: a guarded decrement that finds the product as it was read, and asks
\* for more than its quantity, fails the placement with OutOfStock; and
\* OutOfStock is returned only then, never for a changed version.
C5_OutOfStockIsAuthoritative ==
    \A r \in Requests :
        op[r] = "order" =>
        /\ (/\ local[r].stmt = "update"
            /\ local[r].seen.version = local[r].product.version
            /\ LastItem(r).quantity > local[r].seen.quantity)
           => /\ pc[r] = "done"
              /\ ret[r] \in {ErrOutOfStock, ErrStore}
              /\ local[r].wrote = local[r].seen
        /\ ret[r] = ErrOutOfStock
           => /\ local[r].stmt = "update"
              /\ local[r].seen.version = local[r].product.version
              /\ LastItem(r).quantity > local[r].seen.quantity

\* A placement was refused as out of stock.
C5_Witness ==
    \E r \in Requests :
        /\ InsertReturned(r)
        /\ ret[r] = ErrOutOfStock
        /\ LastItem(r).quantity > local[r].seen.quantity
        /\ local[r].seen.quantity >= 1

\* C6: a placement fails with NotFound when the product of the item it has
\* come to does not exist, and only then.
C6_NotFoundIffMissing ==
    \A r \in Requests :
        InsertReturned(r) =>
        /\ (/\ local[r].stmt = "select"
            /\ LastItem(r).productId \notin DOMAIN products
            /\ ret[r] # ErrStore)
           => ret[r] = ErrRecordNotFound
        /\ ret[r] = ErrRecordNotFound
           => LastItem(r).productId \notin DOMAIN products

\* C7: the placement handler answers NotFound with 404, EditConflict with
\* 409, OutOfStock with 409 or 422, and only other failures with 500.
C7_StatusPerErrorKind ==
    \A r \in Requests :
        InsertReturned(r) =>
        /\ ret[r] = ErrRecordNotFound => StatusCode(resp[r]) = 404
        /\ ret[r] = ErrEditConflict => StatusCode(resp[r]) = 409
        /\ ret[r] = ErrOutOfStock => StatusCode(resp[r]) \in {409, 422}
        /\ StatusCode(resp[r]) = 500
           => ret[r] \notin {Nil, ErrRecordNotFound, ErrEditConflict,
                             ErrOutOfStock}

----------------------------------------------------------------------------
\* Properties of the review gate.

\* Request r is a rating submission for a stored product that passed
\* readJSON and ValidateReview and was answered, while no other request had
\* started; the store did not time out.
ReviewAnswered(r) ==
    /\ op[r] = "review" /\ pc[r] = "done"
    /\ ~input[r].malformed /\ ValidateReview(input[r])
    /\ input[r].productId \in DOMAIN products
    /\ ret[r] # ErrStore
    /\ \A o \in Requests \ {r} : pc[o] = "idle"

HasRating(userId, productId) ==
    \E n \in 1 .. Len(ratings) :
        ratings[n].user_id = userId /\ ratings[n].product_id = productId

\* C8: a valid rating submission of user U for product P is accepted, with
\* the rating stored, exactly when an order of U holds an item of P, and is
\* otherwise refused as not permitted, with no rating stored.
C8_ReviewGate ==
    \A r \in Requests :
        ReviewAnswered(r) =>
            IF OrderedBy(input[r].user, input[r].productId)
            THEN /\ resp[r] = StatusCreated
                 /\ HasRating(input[r].user, input[r].productId)
            ELSE /\ resp[r] = notPermittedReview
                 /\ ratings = <<>>

----------------------------------------------------------------------------
\* Properties of the versioned updates.

\* Update was called for request r and has returned.
ProductUpdateReturned(r) ==
    op[r] = "updateProduct" /\ pc[r] = "done" /\ local[r].stmt = "update"

\* The version request r read and submitted.
SubmittedVersion(r) ==
    IF ret[r] = Nil THEN local[r].product.version - 1
    ELSE local[r].product.version

\* C9: a successful product update raises the stored version by exactly 1;
\* an update that submits another version than the stored one changes
\* nothing and returns EditConflict; of two updates that read the same
\* version of a product at most one succeeds.
C9_ProductVersioned ==
    /\ \A r \in Requests :
        ProductUpdateReturned(r) =>
        /\ ret[r] = Nil
           => /\ local[r].seen.version = SubmittedVersion(r)
              /\ local[r].wrote.version = local[r].seen.version + 1
        /\ (local[r].seen.version # SubmittedVersion(r) /\ ret[r] # ErrStore)
           => /\ ret[r] = ErrEditConflict
              /\ local[r].wrote = local[r].seen
    /\ \A a, b \in Requests :
        (/\ a # b
         /\ ProductUpdateReturned(a) /\ ProductUpdateReturned(b)
         /\ input[a].id = input[b].id
         /\ ret[a] = Nil /\ ret[b] = Nil)
        => SubmittedVersion(a) # SubmittedVersion(b)

\* Two updates read product 9 at version 1; one succeeded, the other got
\* EditConflict and left the first one's row in place.
C9_Witness ==
    \E a, b \in Requests :
        /\ a # b
        /\ ProductUpdateReturned(a) /\ ProductUpdateReturned(b)
        /\ input[a].id = 9 /\ input[b].id = 9
        /\ SubmittedVersion(a) = 1 /\ SubmittedVersion(b) = 1
        /\ ret[a] = Nil /\ ret[b] = ErrEditConflict
        /\ local[b].wrote = local[a].wrote
        /\ local[b].product.quantity # local[a].product.quantity

OrderUpdateReturned(r) ==
    op[r] = "updateOrder" /\ pc[r] = "done" /\ local[r].stmt = "update"

\* C10: a successful order update raises the stored version by exactly 1,
\* so of two updates that fetched the order at the same version at most one
\* succeeds.
C10_OrderVersioned ==
    /\ \A r \in Requests :
        (OrderUpdateReturned(r) /\ ret[r] = Nil)
        => local[r].wrote.version = local[r].seen.version + 1
    /\ \A a, b \in Requests :
        (/\ a # b
         /\ OrderUpdateReturned(a) /\ OrderUpdateReturned(b)
         /\ input[a].id = input[b].id
         /\ local[a].seen.version = local[b].seen.version)
        => ~(ret[a] = Nil /\ ret[b] = Nil)

\* Placements, product updates and product creations.
CatalogNext ==
    \/ ProductNext
    \/ \E r \in Requests :
        \/ createProductHandler(r)
        \/ ProductInsert(r)
        \/ ProductInsertCategory(r)

SpecCatalog == Init /\ [][CatalogNext]_vars

\* Placements and deletions of orders, products and categories.
DeleteNext ==
    \/ OrderNext
    \/ \E r \in Requests :
        \/ deleteOrderHandler(r)
        \/ deleteProductHandler(r)
        \/ deleteCategoryHandler(r)

SpecDeletes == Init /\ [][DeleteNext]_vars

\* Listings of products and of a user's orders.
ListNext ==
    \E r \in Requests :
        \/ listProductsHandler(r)
        \/ ProductGetAll(r)
        \/ listUserOrdersHandler(r)
        \/ OrderGetAll(r)
        \/ OrderGetItems(r)

SpecLists == Init /\ [][ListNext]_vars

\* Placements and listings of a user's orders.
OrderListNext ==
    \/ OrderNext
    \/ \E r \in Requests :
        \/ listUserOrdersHandler(r)
        \/ OrderGetAll(r)
        \/ OrderGetItems(r)

SpecOrderLists == Init /\ [][OrderListNext]_vars

\* Category updates.
CategoryNext ==
    \E r \in Requests :
        \/ updateCategoryHandler(r)
        \/ CategoryUpdate(r)

SpecCategories == Init /\ [][CategoryNext]_vars

----------------------------------------------------------------------------
\* Properties of the category update.

\* Update was called for request r and has returned.
CategoryUpdateReturned(r) ==
    op[r] = "updateCategory" /\ pc[r] = "done" /\ local[r].stmt = "update"

\* C11: a category update that finds the category changed since the caller
\* fetched it changes nothing and returns EditConflict.
C11_CategoryVersioned ==
    \A r \in Requests :
        (/\ CategoryUpdateReturned(r)
         /\ ret[r] # ErrStore
         /\ local[r].seen # local[r].category)
        => /\ ret[r] = ErrEditConflict
           /\ local[r].wrote = local[r].seen

----------------------------------------------------------------------------
\* Properties of the stored rows.

\* C12: every order_items row a placement creates has quantity > 0, every
\* decrement a placement makes is of a quantity > 0 and at most the stock it
\* finds, and no placement raises a product's stored quantity.
C12_ItemsWithinStock ==
    /\ \A n \in 2 .. Len(order_items) : order_items[n].quantity > 0
    /\ \A r \in Requests :
        (/\ op[r] = "order"
         /\ local[r].stmt = "update"
         /\ local[r].wrote # local[r].seen)
        => /\ LastItem(r).quantity > 0
           /\ LastItem(r).quantity <= local[r].seen.quantity
    /\ \A id \in ProductIds : products[id].quantity <= stock0[id]

\* C13: every stored product has quantity >= 0 and price > 0.
C13_ProductsValid ==
    \A id \in DOMAIN products :
        /\ products[id].quantity >= 0
        /\ products[id].price > 0

----------------------------------------------------------------------------
\* Properties of a successful placement.

\* The sum, over the items of placement r in request order, of the
\* product's unit price plus the item's quantity.
ExpectedTotal(r) ==
    SeqSum([n \in 1 .. Len(input[r].items) |->
        products[input[r].items[n].productId].price
            + Float(input[r].items[n].quantity)])

\* C14: after a successful placement the stored and the returned total
\* price are the sum over the requested items of unit price plus quantity.
C14_TotalIsPricePlusQuantity ==
    \A r \in Requests :
        InsertSucceeded(r) =>
        /\ orders[local[r].orderId].total_price = ExpectedTotal(r)
        /\ local[r].totalPrice = ExpectedTotal(r)

\* A successful placement of two items, one of them of two units or more,
\* whose total is not the sum of price times quantity.
C14_Witness ==
    \E r \in Requests :
        /\ InsertSucceeded(r)
        /\ Len(input[r].items) = 2
        /\ \E n \in 1 .. 2 : input[r].items[n].quantity >= 2
        /\ orders[local[r].orderId].total_price
             # SeqSum([n \in 1 .. 2 |->
                    products[input[r].items[n].productId].price
                        * input[r].items[n].quantity])

\* The order_items rows a placement with these items creates for order id.
ItemRows(items, id) ==
    [n \in 1 .. Len(items) |->
        [order_id |-> id, product_id |-> items[n].productId,
         quantity |-> items[n].quantity]]

\* C15: after a successful placement with no other request started, every
\* product's quantity is lower by exactly the quantity requested, there is
\* exactly one new order, with the request's user and address, and the new
\* order_items rows are one per requested item, each of the new order.
C15_PlacementEffects ==
    \A r \in Requests :
        (InsertSucceeded(r) /\ \A o \in Requests \ {r} : pc[o] = "idle")
        => /\ \A id \in ProductIds :
                products[id].quantity = stock0[id] - Requested(r, id)
           /\ local[r].orderId = 2
           /\ DOMAIN orders = {1, 2}
           /\ orders[2].user_id = input[r].user
           /\ orders[2].address = input[r].address
           /\ Len(order_items) = 1 + Len(input[r].items)
           /\ SubSeq(order_items, 2, Len(order_items))
                = ItemRows(input[r].items, 2)

\* A placement took the whole stock of product 9, in one item.
C15_Witness ==
    \E r \in Requests :
        /\ InsertSucceeded(r)
        /\ \A o \in Requests \ {r} : pc[o] = "idle"
        /\ stock0[9] = MaxStock
        /\ \E n \in 1 .. Len(input[r].items) :
              input[r].items[n] = [productId |-> 9, quantity |-> MaxStock]
        /\ products[9].quantity = 0
        /\ order_items[Len(order_items)].order_id = 2

----------------------------------------------------------------------------
\* Properties of the foreign keys.

\* C16: every order_items row references an order that exists and a
\* product that exists.
C16_ItemsReferToRows ==
    \A n \in 1 .. Len(order_items) :
        /\ order_items[n].order_id \in DOMAIN orders
        /\ order_items[n].product_id \in DOMAIN products

\* Product 8, an item of order 1, was deleted: order 1 is left without
\* the item.
C16_Witness ==
    \E r \in Requests :
        /\ op[r] = "deleteProduct" /\ pc[r] = "done" /\ ret[r] = Nil
        /\ input[r].id = 8
        /\ 1 \in DOMAIN orders
        /\ \A n \in 1 .. Len(order_items) : order_items[n].order_id # 1

----------------------------------------------------------------------------
\* Properties of the listings.

IsListing(r) == op[r] \in {"listProducts", "listOrders"}

\* C17: a listing request whose sort key is not in the handler's
\* allow-list is answered with a validation failure and issues no store
\* query; a request that issued a query passed the validation of its
\* filters.
C17_SortAllowList ==
    \A r \in Requests :
        IsListing(r) =>
        /\ input[r].sort \notin input[r].sortSafelist
           => /\ pc[r] = "done"
              /\ resp[r] = failedValidationResponse
              /\ local[r].stmt = ""
        /\ (local[r].stmt = "query" \/ pc[r] \in {"get_all", "get_orders"})
           => input[r].sort \in input[r].sortSafelist

\* A product listing sorted by a key outside the allow-list was refused,
\* and an order listing sorted by an allowed key ran its query.
C17_Witness ==
    \E a, b \in Requests :
        /\ op[a] = "listProducts" /\ input[a].sort = "name"
        /\ resp[a] = failedValidationResponse
        /\ op[b] = "listOrders" /\ local[b].stmt = "query"

\* The products associated with at least one category of the list (any
\* product with a category when the list is empty) whose title matches.
ProductsInCategories(title, cats) ==
    {id \in DOMAIN products :
        /\ TitleMatches(products[id].title, title)
        /\ \E x \in product_category :
              /\ x.product_id = id
              /\ cats # <<>> => x.category_id \in Range(cats)}

\* C18: a product listing with a list of category ids returns exactly the
\* products, matching the title, that are associated with at least one of
\* them, for one id and for more than one alike; with no ids it applies no
\* category restriction (on a first page that holds them all).
C18_CategoryFilter ==
    \A r \in Requests :
        (/\ op[r] = "listProducts" /\ pc[r] = "done" /\ resp[r] = StatusOK
         /\ input[r].page = 1 /\ input[r].pageSize = 20)
        => local[r].rows
             = ProductsInCategories(input[r].title, input[r].categories)

----------------------------------------------------------------------------
\* Properties of the placement's validation.

\* C19: a placement request with no items or with an empty address is
\* answered with a validation failure before any store statement: it runs
\* no statement, and alone it leaves the products, the orders and the
\* order_items as they were.
C19_EmptyOrderRejected ==
    \A r \in Requests :
        (/\ op[r] = "order"
         /\ ~input[r].malformed
         /\ (input[r].items = <<>> \/ input[r].address = ""))
        => /\ pc[r] = "done"
           /\ resp[r] = failedValidationResponse
           /\ local[r].stmt = ""
           /\ (\A o \in Requests \ {r} : pc[o] = "idle")
              => /\ \A id \in ProductIds :
                      /\ products[id].quantity = stock0[id]
                      /\ products[id].version = 1
                 /\ DOMAIN orders = {1}
                 /\ Len(order_items) = 1

\* One placement without items and one with items and no address were
\* refused.
C19_Witness ==
    \E a, b \in Requests :
        /\ op[a] = "order" /\ ~input[a].malformed
        /\ input[a].items = <<>> /\ input[a].address # ""
        /\ resp[a] = failedValidationResponse
        /\ op[b] = "order" /\ ~input[b].malformed
        /\ input[b].items # <<>> /\ input[b].address = ""
        /\ resp[b] = failedValidationResponse

----------------------------------------------------------------------------
\* Properties of the statements a call issues.

\* What the step of request r shows of a call that never retries: a
\* placement reads a product only for an item it has not come to yet, and
\* attempts a decrement only straight after the read of the same item; a
\* product update issues its guarded UPDATE once, straight after the read,
\* and returns; a request that has returned, with an error or without,
\* runs no further statement.
NoRetryStep(r) ==
    /\ (op'[r] = "order" /\ local'[r] # local[r])
       => /\ local'[r].stmt = "select" => local'[r].k > local[r].k
          /\ local'[r].stmt = "update"
             => local[r].stmt = "select" /\ local'[r].k = local[r].k
    /\ (op'[r] = "updateProduct" /\ local'[r] # local[r]
          /\ local'[r].stmt = "update")
       => local[r].stmt = "select" /\ pc'[r] = "done"
    /\ pc[r] = "done"
       => pc'[r] = "done" /\ local'[r] = local[r] /\ ret'[r] = ret[r]

\* C20: within one placement each item causes at most one product read and
\* at most one guarded decrement attempt, within one update call at most
\* one guarded update is issued, and after an error the operation returns
\* without reading or writing again.
C20_NoRetry == [][\A r \in Requests : NoRetryStep(r)]_vars

\* A product update returned EditConflict, while a placement of two items
\* ran all its statements and succeeded.
C20_Witness ==
    \E a, b \in Requests :
        /\ op[a] = "updateProduct" /\ pc[a] = "done"
        /\ ret[a] = ErrEditConflict
        /\ InsertSucceeded(b) /\ Len(input[b].items) = 2

----------------------------------------------------------------------------
\* Properties of the order of Insert's statements.

\* What the step of placement r shows of the order of its statements: the
\* step that inserts its order header comes straight after the successful
\* decrement of its last item, with one decrement made per item; a step
\* that inserts one of its order_items rows comes after its header.
HeaderAfterItemsStep(r) ==
    op'[r] = "order" =>
    /\ local'[r].orderId # local[r].orderId
       => /\ local[r].stmt = "update"
          /\ local[r].k = Len(input[r].items)
          /\ local[r].i = Len(input[r].items) + 1
          /\ local[r].wrote.version = local[r].seen.version + 1
          /\ local'[r].orderId \in DOMAIN orders' \ DOMAIN orders
    /\ (local'[r] # local[r] /\ local'[r].stmt = "insert_item")
       => /\ local[r].orderId # 0
          /\ local[r].stmt \in {"insert_order", "insert_item"}
    /\ DOMAIN orders' # DOMAIN orders
       => \E o \in Requests : local'[o].orderId # local[o].orderId

\* C21: an order header is inserted only after the guarded decrement of
\* every item of its placement has succeeded, and the order_items rows of
\* a placement only after its header.
C21_HeaderAfterItems == [][\A r \in Requests : HeaderAfterItemsStep(r)]_vars

\* A placement of two items has inserted its header and both its rows.
C21_Witness ==
    \E r \in Requests :
        /\ InsertSucceeded(r)
        /\ Len(input[r].items) = 2
        /\ local[r].orderId \in DOMAIN orders
        /\ Len(order_items) >= 3

----------------------------------------------------------------------------
\* Properties of placements concurrent with product updates.

\* The item placement r is at.
CurrentItem(r) == input[r].items[local[r].i]

\* C22: whenever a placement adds an item to its total, the unit price it
\* adds is the price the product has in the store at the step of the
\* item's decrement, whatever product updates ran meanwhile.
C22_PriceAtDecrement ==
    [][\A r \in Requests :
        (/\ op'[r] = "order"
         /\ pc[r] = "update"
         /\ products' # products
         /\ local'[r].stmt = "update"
         /\ local'[r].i = local[r].i + 1)
        => local'[r].totalPrice
             = local[r].totalPrice
               + products[CurrentItem(r).productId].price
               + Float(CurrentItem(r).quantity)]_vars

\* A product update changed the price of product 9 to 6, and a placement
\* of product 9 alone that ended after it was charged the new price.
C22_Witness ==
    \E a, b \in Requests :
        /\ ProductUpdateReturned(a) /\ ret[a] = Nil
        /\ input[a].id = 9 /\ input[a].price = {6000}
        /\ InsertSucceeded(b)
        /\ Len(input[b].items) = 1 /\ input[b].items[1].productId = 9
        /\ local[b].seen.price = 6000
        /\ orders[local[b].orderId].total_price
             = 6000 + Float(input[b].items[1].quantity)

----------------------------------------------------------------------------
\* Properties of the deletions.

\* Request r called Delete for an id of 1 or more, and the store neither
\* failed nor refused the statement.
DeleteReturned(r) ==
    /\ op[r] \in {"deleteProduct", "deleteOrder", "deleteCategory"}
    /\ pc[r] = "done"
    /\ input[r].id >= 1
    /\ ret[r] \notin {ErrStore, ErrForeignKey}

\* C23: a delete by an id whose row exists removes the row and succeeds,
\* answered with 200; a delete by an id with no row returns
\* ErrRecordNotFound, answered with 404; no delete removes the row and
\* reports NotFound.
C23_DeleteOutcome ==
    \A r \in Requests :
        DeleteReturned(r) =>
        /\ local[r].existed
           => local[r].removed /\ ret[r] = Nil /\ resp[r] = StatusOK
        /\ ~local[r].existed
           => ret[r] = ErrRecordNotFound /\ resp[r] = notFoundResponse
        /\ ret[r] = ErrRecordNotFound => ~local[r].removed

\* The listing of request r ran its page query and was answered.
Listed(r) ==
    IsListing(r) /\ pc[r] = "done" /\ resp[r] = StatusOK

\* The records that match the filter of listing r.
Matching(r) ==
    IF op[r] = "listProducts"
    THEN GetAllRows(input[r].title, input[r].categories)
    ELSE GetAllOrdersRows(input[r].user)

\* C24: for every page and page size, a page beyond the last one included,
\* the total record count of a listing is the number of records that match
\* its filter.
C24_TotalRecords ==
    \A r \in Requests :
        Listed(r) => local[r].totalRecords = Cardinality(Matching(r))

\* The fields of an order that an update-order response shows.
Shown(order) ==
    [status |-> order.status, address |-> order.address,
     total_price |-> order.total_price, version |-> order.version]

\* C25: after a successful update-order request the order of the response
\* (status, address, total price, version) is the order as stored.
C25_ResponseIsStored ==
    \A r \in Requests :
        (OrderUpdateReturned(r) /\ ret[r] = Nil /\ resp[r] = StatusOK)
        => Shown(local[r].order) = Shown(local[r].wrote)

\* Request r is a product update about to run its UPDATE on a row that the
\* placements, the only other requests, have decremented since r fetched it.
DecrementedSinceGet(r) ==
    /\ op[r] = "updateProduct" /\ pc[r] = "update_product"
    /\ \A p \in Requests \ {r} : op[p] \in {"none", "order"}
    /\ input[r].id \in DOMAIN products
    /\ products[input[r].id].version > local[r].product.version
    /\ products[input[r].id].quantity < local[r].product.quantity

UpdateAfterDecrementStep ==
    \A r \in Requests :
        (/\ DecrementedSinceGet(r)
         /\ pc'[r] = "done" /\ local'[r].stmt = "update"
         /\ ret'[r] # ErrStore)
        => /\ ret'[r] = ErrEditConflict
           /\ products' = products

\* C26: a product update that fetched the product before a placement
\* decremented its stock, and runs its UPDATE after the decrement, gets
\* EditConflict and leaves the stored quantity at the decremented value.
C26_DecrementNotOverwritten == [][UpdateAfterDecrementStep]_vars

\* An update that asked for a new quantity of product 9 got EditConflict
\* after a placement had decremented the product it had fetched.
C26_Witness ==
    \E a, p \in Requests :
        /\ ProductUpdateReturned(a) /\ ret[a] = ErrEditConflict
        /\ input[a].id = 9 /\ input[a].quantity # {}
        /\ op[p] = "order"
        /\ local[a].seen.version = SubmittedVersion(a) + 1
        /\ local[a].seen.quantity < stock0[9]
        /\ products[9] = local[a].seen

\* Request r is a create-product request that names a category that is not
\* stored, and the handler has looked it up.
NamesMissingCategory(r) ==
    /\ op[r] = "createProduct" /\ ~input[r].malformed
    /\ \E n \in 1 .. Len(input[r].categories) :
            input[r].categories[n] \notin DOMAIN categories
    /\ ret[r] = ErrRecordNotFound

\* C27: a create-product request that names a category that does not exist
\* is answered with 404 alone, stops without dereferencing the missing
\* category, and inserts no product and no product_category row.
C27_MissingCategoryStops ==
    \A r \in Requests :
        NamesMissingCategory(r)
        => /\ pc[r] = "done" /\ resp[r] = notFoundResponse
           /\ ~local[r].panic
           /\ local[r].productId = 0 /\ local[r].stmt = ""

\* No creation is between the INSERT of its product row and the INSERTs of
\* its product_category rows.
NoInsertUnderWay ==
    \A r \in Requests : pc[r] # "insert_category"

\* C28: every stored product has at least one product_category row, also
\* after an Insert that failed once its product row was inserted, so that
\* an unfiltered product listing returns every stored product.
C28_ProductsHaveCategory ==
    NoInsertUnderWay
    => /\ \A id \in DOMAIN products : ProductCategories(id) # {}
       /\ GetAllRows("", <<>>) = DOMAIN products

\* The rows of order_items that belong to order id.
ItemRowsOf(id) ==
    {k \in 1 .. Len(order_items) : order_items[k].order_id = id}

\* The items got are the rows of order_items of order id, each one once.
ExactlyItemsOf(got, id) ==
    /\ Len(got) = Cardinality(ItemRowsOf(id))
    /\ \E f \in [1 .. Len(got) -> ItemRowsOf(id)] :
        /\ \A m, n \in 1 .. Len(got) : f[m] = f[n] => m = n
        /\ \A n \in 1 .. Len(got) :
            /\ got[n].productId = order_items[f[n]].product_id
            /\ got[n].quantity = order_items[f[n]].quantity

ListOrdersStep ==
    \A r \in Requests :
        op'[r] = "listOrders" =>
        /\ \A id \in local'[r].rows :
            id \in DOMAIN orders /\ orders[id].user_id = input'[r].user
        /\ op[r] = "listOrders" =>
            /\ DOMAIN local'[r].items \subseteq local'[r].rows
            /\ \A id \in DOMAIN local'[r].items \ DOMAIN local[r].items :
                ExactlyItemsOf(local'[r].items[id], id)

\* C29: the listing of the orders of user U returns only orders whose
\* user_id is U, and the items attached to each returned order are exactly
\* the order_items rows of that order; no order or item of another user is
\* returned.
C29_OwnOrdersOnly == [][ListOrdersStep]_vars

\* A listing returned an order of its user with the items of that order,
\* while an order of another user, with items, is stored.
C29_Witness ==
    \E r \in Requests :
        /\ op[r] = "listOrders" /\ pc[r] = "done" /\ resp[r] = StatusOK
        /\ \E id \in local[r].rows :
            /\ id \in DOMAIN local[r].items
            /\ Len(local[r].items[id]) >= 1
        /\ \E other \in DOMAIN orders :
            /\ orders[other].user_id # input[r].user
            /\ ItemRowsOf(other) # {}

====
